---- MODULE Spec2Model ----
(***************************************************************************)
(* Wage liability risk engine (src/app.py, "CALCULATION ENGINE").          *)
(*                                                                         *)
(* Numbers.  The engine computes with IEEE doubles; the model computes in  *)
(* fixed point.  Money is an integer number of 1/100 of a currency unit    *)
(* and every arithmetic step rounds down (MulDiv), so the sign of an       *)
(* amount is the sign the engine computes.  Rates, percentages and         *)
(* volatilities of the tables are stored times 100.  Dates are day         *)
(* numbers counted from 2000-01-01; tenure in years is the exact rational  *)
(* 4 * days / 1461 (= days / 365.25), kept as its numerator.               *)
(***************************************************************************)
EXTENDS Integers, Sequences, FiniteSets, TLC

VARIABLES
    today,      \* the system clock: what date.today() returns
    tables,     \* the module globals COUNTRY_RULES, FX_RATES, FX_VOLATILITY
    pc,         \* position of the running call
    employees,  \* the argument of calculate_portfolio
    idx,        \* index of the employee the list comprehension is at
    loc,        \* locals of the running calculate_employee_liability
    results,    \* the list `results` built by calculate_portfolio
    out,        \* the value calculate_portfolio returned
    raised,     \* the exception that left calculate_portfolio ("" if none)
    readlog     \* per entry of results, the dates the clock showed at its five reads

vars == <<today, tables, pc, employees, idx, loc, results, out, raised, readlog>>

----------------------------------------------------------------------------
(* Bounds of the model *)

\* longest employee list handed to calculate_portfolio
MaxPortfolio == 2

\* last day the clock reaches (9497 is 2026-01-01)
LastDay == 9497

----------------------------------------------------------------------------
(* Arithmetic helpers *)

Min(a, b) == IF a <= b THEN a ELSE b

Max(a, b) == IF a >= b THEN a ELSE b

\* dict.get(key, default)
Get(d, k, default) == IF k \in DOMAIN d THEN d[k] ELSE default

\* int(n / d) for d > 0: Python's int() truncates toward zero
Trunc(n, d) == IF n >= 0 THEN n \div d ELSE -((-n) \div d)

\* [q, r] with a * b = q * c + r and 0 <= r < c, for a, b >= 0 and c > 0,
\* by binary long multiplication so that no intermediate leaves 32 bits
RECURSIVE MulDivNat(_, _, _)
MulDivNat(a, b, c) ==
    IF b = 0 THEN [q |-> 0, r |-> 0]
    ELSE LET h == MulDivNat(a, b \div 2, c)
             r2 == 2 * h.r + (IF b % 2 = 1 THEN a % c ELSE 0)
             q2 == 2 * h.q + (IF b % 2 = 1 THEN a \div c ELSE 0)
         IN  [q |-> q2 + (r2 \div c), r |-> r2 % c]

\* floor(a * b / c) for b >= 0 and c > 0, a of either sign
MulDiv(a, b, c) ==
    IF a >= 0 THEN MulDivNat(a, b, c).q
    ELSE LET m == MulDivNat(-a, b, c)
         IN  -(m.q + (IF m.r > 0 THEN 1 ELSE 0))

\* Gregorian calendar: the day number of January 1 of the year holding day d
IsLeap(y) == (y % 4 = 0 /\ y % 100 # 0) \/ y % 400 = 0

DaysInYear(y) == IF IsLeap(y) THEN 366 ELSE 365

RECURSIVE YearStartFrom(_, _, _)
YearStartFrom(y, start, d) ==
    IF d < start + DaysInYear(y) THEN start
    ELSE YearStartFrom(y + 1, start + DaysInYear(y), d)

\* date(today.year, 1, 1), for day numbers d >= 0
YearStart(d) == YearStartFrom(2000, 0, d)

----------------------------------------------------------------------------
(* Configuration tables *)

\* percentages and per-year fractions are stored times 100
COUNTRY_RULES ==
    ("BR" :> [name |-> "Brazil", currency |-> "BRL",
              notice_period |-> [base_days |-> 30, additional_days_per_year |-> 3,
                                 max_days |-> 90],
              severance |-> [formula_type |-> "fgts_based", fgts_penalty_percent |-> 40],
              statutory_bonuses |-> ("13th_month" :> TRUE) @@ ("vacation_bonus" :> 3333),
              legal_risk |-> "high"]) @@
    ("FR" :> [name |-> "France", currency |-> "EUR",
              notice_period |-> [tiers |-> <<
                  [min_months |-> 0, max_months |-> 6, days |-> 0],
                  [min_months |-> 6, max_months |-> 24, days |-> 30],
                  [min_months |-> 24, max_months |-> 999, days |-> 60] >>],
              severance |-> [formula |-> "tiered", min_tenure_months |-> 8],
              statutory_bonuses |-> ("paid_leave_days_per_month" :> 250),
              legal_risk |-> "medium"]) @@
    ("DE" :> [name |-> "Germany", currency |-> "EUR",
              notice_period |-> [tiers |-> <<
                  [min_years |-> 0, weeks |-> 4],
                  [min_years |-> 2, weeks |-> 4],
                  [min_years |-> 5, weeks |-> 8],
                  [min_years |-> 8, weeks |-> 12],
                  [min_years |-> 10, weeks |-> 16],
                  [min_years |-> 15, weeks |-> 24],
                  [min_years |-> 20, weeks |-> 28] >>],
              severance |-> [formula |-> "market_practice", months_per_year |-> 50],
              statutory_bonuses |-> << >>,
              legal_risk |-> "medium"]) @@
    ("IN" :> [name |-> "India", currency |-> "INR",
              notice_period |-> [typical_days |-> 30, senior_days |-> 90],
              severance |-> [formula |-> "gratuity", min_tenure_years |-> 5],
              statutory_bonuses |-> ("statutory_bonus_percent" :> 833) @@
                                    ("salary_cap" :> 21000),
              legal_risk |-> "low"]) @@
    ("PH" :> [name |-> "Philippines", currency |-> "PHP",
              notice_period |-> [standard_days |-> 30],
              severance |-> [formula |-> "one_month_per_year"],
              statutory_bonuses |-> ("13th_month" :> TRUE),
              legal_risk |-> "medium"]) @@
    ("MX" :> [name |-> "Mexico", currency |-> "MXN",
              notice_period |-> [days |-> 0],
              severance |-> [constitutional_months |-> 3, seniority_days_per_year |-> 12],
              statutory_bonuses |-> ("aguinaldo_days" :> 15) @@
                                    ("vacation_premium_percent" :> 2500),
              legal_risk |-> "high"]) @@
    ("GB" :> [name |-> "United Kingdom", currency |-> "GBP",
              notice_period |-> [tiers |-> <<
                  [min_years |-> 0, weeks |-> 1],
                  [min_years |-> 2, weeks_per_year |-> 1, max_weeks |-> 12] >>],
              severance |-> [formula |-> "statutory_redundancy", weekly_cap |-> 700,
                             max_years |-> 20],
              statutory_bonuses |-> << >>,
              legal_risk |-> "medium"]) @@
    ("NL" :> [name |-> "Netherlands", currency |-> "EUR",
              notice_period |-> [tiers |-> <<
                  [min_years |-> 0, months |-> 1],
                  [min_years |-> 5, months |-> 2],
                  [min_years |-> 10, months |-> 3],
                  [min_years |-> 15, months |-> 4] >>],
              severance |-> [formula |-> "transition_payment", months_per_year |-> 33,
                             max_eur |-> 94000],
              statutory_bonuses |-> ("holiday_allowance_percent" :> 800),
              legal_risk |-> "medium"]) @@
    ("SG" :> [name |-> "Singapore", currency |-> "SGD",
              notice_period |-> [tiers |-> <<
                  [tenure |-> "< 26 weeks", days |-> 1],
                  [tenure |-> "26w - 2y", weeks |-> 1],
                  [tenure |-> "2y - 5y", weeks |-> 2],
                  [tenure |-> "5y+", weeks |-> 4] >>],
              severance |-> [formula |-> "market_practice", weeks_per_year |-> 2,
                             min_tenure_years |-> 2],
              statutory_bonuses |-> << >>,
              legal_risk |-> "low"]) @@
    ("AU" :> [name |-> "Australia", currency |-> "AUD",
              notice_period |-> [tiers |-> <<
                  [min_years |-> 1, weeks |-> 1],
                  [min_years |-> 3, weeks |-> 2],
                  [min_years |-> 5, weeks |-> 3],
                  [min_years |-> 999, weeks |-> 4] >>,
                  over_45_extra_week |-> TRUE],
              severance |-> [formula |-> "nse_scale",
                             scale |-> <<4, 6, 7, 8, 10, 11, 12, 13, 14, 15, 16>>],
              statutory_bonuses |-> << >>,
              legal_risk |-> "medium"])

\* local units per USD, times 100
FX_RATES ==
    ("BRL" :> 585) @@ ("EUR" :> 92) @@ ("INR" :> 8350) @@ ("PHP" :> 5680) @@
    ("MXN" :> 1725) @@ ("GBP" :> 79) @@ ("SGD" :> 134) @@ ("AUD" :> 155) @@
    ("USD" :> 100)

\* volatility, times 100
FX_VOLATILITY ==
    ("BRL" :> 18) @@ ("EUR" :> 4) @@ ("INR" :> 8) @@ ("PHP" :> 6) @@
    ("MXN" :> 14) @@ ("GBP" :> 5) @@ ("SGD" :> 3) @@ ("AUD" :> 7)

\* calculate_vacation_accrual's local table of annual leave days
ACCRUAL_RATES ==
    ("BR" :> 30) @@ ("FR" :> 25) @@ ("DE" :> 20) @@ ("IN" :> 21) @@ ("PH" :> 5) @@
    ("MX" :> 12) @@ ("GB" :> 28) @@ ("NL" :> 20) @@ ("SG" :> 14) @@ ("AU" :> 20)

\* denominator of tenure in years: years = (4 * days) / 1461 = days / 365.25
YearsDen == 1461

----------------------------------------------------------------------------
(* Leaves: tenure and currency *)

\* monthly_salary_local in 1/100 of a currency unit
Salary(employee) == employee.monthly_salary_local * 100

\* (days, months, years) from the hire date to the date the clock shows;
\* no comparison of the two dates is made, so all three may be negative
calculate_tenure(start_date, now) ==
    LET days == now - start_date.day
    IN  [days |-> days, months |-> days \div 30, years |-> 4 * days]

convert_to_usd(amount, currency, tbl) ==
    LET rate == Get(tbl.rates, currency, 100)
    IN  IF rate # 0 THEN MulDiv(amount, 100, rate) ELSE amount

get_volatility_rating(currency, tbl) ==
    LET vol == Get(tbl.vol, currency, 10)
    IN  IF vol >= 12 THEN "High" ELSE IF vol >= 6 THEN "Medium" ELSE "Low"

----------------------------------------------------------------------------
(* Notice period *)

SENIOR_LEVELS == {"director", "head", "principal", "lead"}

\* NoticeTier with the tier comparisons turned round (tenure <= threshold)
NoticeTier_Inverted(tier, acc, tenure) ==
    IF "min_months" \in DOMAIN tier THEN
        IF tenure.months <= Get(tier, "min_months", 0)
        THEN Get(tier, "days", 0) ELSE acc
    ELSE IF "min_years" \in DOMAIN tier THEN
        IF tenure.years <= Get(tier, "min_years", 0) * YearsDen THEN
            IF "weeks" \in DOMAIN tier THEN tier.weeks * 7
            ELSE IF "weeks_per_year" \in DOMAIN tier THEN
                Min(Trunc(tenure.years, YearsDen) * tier.weeks_per_year,
                    Get(tier, "max_weeks", 12)) * 7
            ELSE IF "months" \in DOMAIN tier THEN tier.months * 30
            ELSE acc
        ELSE acc
    ELSE acc

\* one pass of the loop over notice_config["tiers"]: the value of notice_days
\* after tier `tier`, given its value `acc` before
NoticeTier(tier, acc, tenure) ==
    IF "min_months" \in DOMAIN tier THEN
        IF tenure.months >= Get(tier, "min_months", 0)
        THEN Get(tier, "days", 0) ELSE acc
    ELSE IF "min_years" \in DOMAIN tier THEN
        IF tenure.years >= Get(tier, "min_years", 0) * YearsDen THEN
            IF "weeks" \in DOMAIN tier THEN tier.weeks * 7
            ELSE IF "weeks_per_year" \in DOMAIN tier THEN
                Min(Trunc(tenure.years, YearsDen) * tier.weeks_per_year,
                    Get(tier, "max_weeks", 12)) * 7
            ELSE IF "months" \in DOMAIN tier THEN tier.months * 30
            ELSE acc
        ELSE acc
    ELSE acc

\* the loop over the tiers left at the first tier whose threshold is met
RECURSIVE NoticeTiers_FirstMatch(_, _, _, _)
NoticeTiers_FirstMatch(tiers, i, acc, tenure) ==
    IF i > Len(tiers) THEN acc
    ELSE LET days == NoticeTier(tiers[i], -1, tenure)
         IN  IF days # -1 THEN days
             ELSE NoticeTiers_FirstMatch(tiers, i + 1, acc, tenure)

RECURSIVE NoticeTiers(_, _, _, _)
NoticeTiers(tiers, i, acc, tenure) ==
    IF i > Len(tiers) THEN acc
    ELSE NoticeTiers(tiers, i + 1, NoticeTier(tiers[i], acc, tenure), tenure)

NoticeDays(employee, country, tenure) ==
    LET notice_config == Get(country, "notice_period", << >>)
    IN  IF "base_days" \in DOMAIN notice_config THEN
            Min(Get(notice_config, "base_days", 30)
                  + Trunc(tenure.years * Get(notice_config, "additional_days_per_year", 0),
                          YearsDen),
                Get(notice_config, "max_days", 90))
        ELSE IF "tiers" \in DOMAIN notice_config THEN
            NoticeTiers(notice_config.tiers, 1, 0, tenure)
        ELSE IF "typical_days" \in DOMAIN notice_config THEN
            IF employee.job_level \in SENIOR_LEVELS
            THEN Get(notice_config, "senior_days", notice_config.typical_days)
            ELSE notice_config.typical_days
        ELSE IF "standard_days" \in DOMAIN notice_config THEN notice_config.standard_days
        ELSE IF "days" \in DOMAIN notice_config THEN notice_config.days
        ELSE 0

\* (notice_days, notice_days * daily_rate) with daily_rate = salary / 22
calculate_notice_period(employee, country, now) ==
    LET tenure == calculate_tenure(employee.start_date, now)
        notice_days == NoticeDays(employee, country, tenure)
    IN  [days |-> notice_days, cost |-> MulDiv(notice_days, Salary(employee), 22)]

----------------------------------------------------------------------------
(* Severance *)

\* BelowMinTenure without the check of min_tenure_years
BelowMinTenure_MonthsOnly(sev_config, tenure) ==
    tenure.months < Get(sev_config, "min_tenure_months", 0)

\* the minimum-tenure check made before the formula dispatch
BelowMinTenure(sev_config, tenure) ==
    \/ tenure.months < Get(sev_config, "min_tenure_months", 0)
    \/ tenure.years < Get(sev_config, "min_tenure_years", 0) * YearsDen

\* nse_scale with the scale read at the number of whole years, not one below
NseScaleIndex_Unshifted(years, scale) ==
    Min(Trunc(years, YearsDen), Len(scale) - 1)

\* the 0-based position read in the nse_scale table; years is the numerator of
\* the tenure in years over YearsDen
NseScaleIndex(years, scale) ==
    Min(Trunc(years, YearsDen) - 1, Len(scale) - 1)

\* the formula dispatch, for an employee that passed the minimum-tenure check
SeveranceFormula(monthly_salary, sev_config, tenure) ==
    LET formula == Get(sev_config, "formula", Get(sev_config, "formula_type", ""))
        y == tenure.years
    IN  IF formula = "fgts_based" THEN
            LET fgts_balance == MulDiv(y * 96, monthly_salary, 100 * YearsDen)
            IN  MulDiv(fgts_balance, Get(sev_config, "fgts_penalty_percent", 40), 100)
        ELSE IF formula = "tiered" THEN
            IF y <= 10 * YearsDen
            THEN MulDiv(y * 25, monthly_salary, 100 * YearsDen)
            ELSE MulDiv(monthly_salary, 250, 100)
                 + MulDiv((y - 10 * YearsDen) * 33, monthly_salary, 100 * YearsDen)
        ELSE IF formula = "market_practice" THEN
            LET months_per_year == Get(sev_config, "months_per_year", 50)
                weeks_per_year == Get(sev_config, "weeks_per_year", 0)
            IN  IF weeks_per_year # 0
                THEN MulDiv(y * weeks_per_year * 100, monthly_salary, 433 * YearsDen)
                ELSE MulDiv(y * months_per_year, monthly_salary, 100 * YearsDen)
        ELSE IF formula = "gratuity" THEN
            IF y >= 5 * YearsDen
            THEN MulDiv(y * 15, monthly_salary, 26 * YearsDen)
            ELSE 0
        ELSE IF formula = "one_month_per_year" THEN
            IF y <= YearsDen THEN monthly_salary
            ELSE MulDiv(y, monthly_salary, YearsDen)
        ELSE IF "constitutional_months" \in DOMAIN sev_config THEN
            sev_config.constitutional_months * monthly_salary
            + MulDiv(y * Get(sev_config, "seniority_days_per_year", 12),
                     monthly_salary, 30 * YearsDen)
        ELSE IF formula = "statutory_redundancy" THEN
            LET weekly_pay == Min(MulDiv(monthly_salary, 100, 433),
                                  Get(sev_config, "weekly_cap", 700) * 100)
                years_counted == Min(y, Get(sev_config, "max_years", 20) * YearsDen)
            IN  MulDiv(years_counted, weekly_pay, YearsDen)
        ELSE IF formula = "transition_payment" THEN
            Min(MulDiv(y * Get(sev_config, "months_per_year", 33), monthly_salary,
                       100 * YearsDen),
                Get(sev_config, "max_eur", 94000) * 100)
        ELSE IF formula = "nse_scale" THEN
            LET scale == Get(sev_config, "scale", << >>)
            IN  IF y >= YearsDen /\ Len(scale) > 0
                THEN LET year_index == NseScaleIndex(y, scale)
                     IN  MulDiv(monthly_salary, scale[year_index + 1] * 100, 433)
                ELSE 0
        ELSE 0

calculate_severance(employee, country, now) ==
    LET tenure == calculate_tenure(employee.start_date, now)
        sev_config == Get(country, "severance", << >>)
    IN  IF BelowMinTenure(sev_config, tenure) THEN 0
        ELSE SeveranceFormula(Salary(employee), sev_config, tenure)

----------------------------------------------------------------------------
(* Statutory bonuses and vacation accrual *)

\* (today - date(today.year, 1, 1)).days
DaysInYearSoFar(now) == now - YearStart(now)

\* a 13th month accrued whether or not the rule set declares one
calculate_statutory_bonuses_ThirteenthByDefault(employee, country, now) ==
    IF Get(Get(country, "statutory_bonuses", << >>), "13th_month", TRUE)
    THEN MulDiv(Salary(employee), DaysInYearSoFar(now), 365)
    ELSE 0

\* prorated by year_progress = days since January 1 / 365
calculate_statutory_bonuses(employee, country, now) ==
    LET monthly_salary == Salary(employee)
        bonuses == Get(country, "statutory_bonuses", << >>)
        elapsed == DaysInYearSoFar(now)
        thirteenth == IF Get(bonuses, "13th_month", FALSE)
                      THEN MulDiv(monthly_salary, elapsed, 365) ELSE 0
        aguinaldo == IF "aguinaldo_days" \in DOMAIN bonuses
                     THEN MulDiv(monthly_salary, bonuses["aguinaldo_days"] * elapsed,
                                 30 * 365)
                     ELSE 0
        holiday == IF "holiday_allowance_percent" \in DOMAIN bonuses
                   THEN MulDiv(monthly_salary,
                               12 * bonuses["holiday_allowance_percent"] * elapsed,
                               10000 * 365)
                   ELSE 0
        statutory == IF "statutory_bonus_percent" \in DOMAIN bonuses
                     THEN LET capped == IF "salary_cap" \in DOMAIN bonuses
                                        THEN Min(monthly_salary,
                                                 bonuses["salary_cap"] * 100)
                                        ELSE monthly_salary
                          IN  MulDiv(capped,
                                     12 * bonuses["statutory_bonus_percent"] * elapsed,
                                     10000 * 365)
                     ELSE 0
        vacation_bonus == IF "vacation_bonus" \in DOMAIN bonuses
                          THEN MulDiv(monthly_salary, bonuses["vacation_bonus"] * elapsed,
                                      10000 * 365)
                          ELSE 0
    IN  thirteenth + aguinaldo + holiday + statutory + vacation_bonus

\* (annual_days / 365) * days elapsed this year * (salary / 22)
calculate_vacation_accrual(employee, country_code, now) ==
    LET annual_days == Get(ACCRUAL_RATES, country_code, 20)
    IN  MulDiv(Salary(employee), annual_days * DaysInYearSoFar(now), 365 * 22)
----------------------------------------------------------------------------
(* Employee liability *)

\* str.title() of the three legal-risk labels
Title(s) ==
    IF s = "high" THEN "High" ELSE IF s = "medium" THEN "Medium"
    ELSE IF s = "low" THEN "Low" ELSE s

\* legal_scores, times 100
LEGAL_SCORES == ("high" :> 90) @@ ("medium" :> 50) @@ ("low" :> 20)

\* COUNTRY_RULES.get(country_code, {})
CountryOf(employee, tbl) == Get(tbl.rules, employee.country_code, << >>)

\* risk score in 1/100 of a point:
\* min(liability_score + fx_score + legal_score + 10, 100)
RiskScore(total_usd, currency, country, tbl) ==
    LET liability_score == Min(MulDiv(total_usd, 35, 100000), 3500)
        fx_score == Get(tbl.vol, currency, 10) * 125
        legal_score == Get(LEGAL_SCORES, Get(country, "legal_risk", "medium"), 50) * 15
    IN  Min(liability_score + fx_score + legal_score + 1000, 10000)

\* the dict calculate_employee_liability returns, from the four components in
\* `l` and the tenure read when the dict is built
LiabilityResult(employee, l, now, tbl) ==
    LET country == CountryOf(employee, tbl)
        total_local == l.notice_cost + l.severance + l.bonuses + l.vacation
        total_usd == convert_to_usd(total_local, employee.currency, tbl)
    IN  [employee_id |-> employee.employee_id,
         name |-> employee.name,
         country_code |-> employee.country_code,
         country_name |-> Get(country, "name", employee.country_code),
         currency |-> employee.currency,
         notice_days |-> l.notice_days,
         notice_cost |-> l.notice_cost,
         severance |-> l.severance,
         bonuses |-> l.bonuses,
         vacation |-> l.vacation,
         total_local |-> total_local,
         total_usd |-> total_usd,
         risk_score |-> RiskScore(total_usd, employee.currency, country, tbl),
         fx_volatility |-> get_volatility_rating(employee.currency, tbl),
         legal_risk |-> Title(Get(country, "legal_risk", "medium")),
         tenure_years |-> calculate_tenure(employee.start_date, now).years]

\* calculate_employee_liability when every read of the clock returns `now`
calculate_employee_liability(employee, now, tbl) ==
    LET country == CountryOf(employee, tbl)
        notice == calculate_notice_period(employee, country, now)
    IN  LiabilityResult(employee,
            [notice_days |-> notice.days, notice_cost |-> notice.cost,
             severance |-> calculate_severance(employee, country, now),
             bonuses |-> calculate_statutory_bonuses(employee, country, now),
             vacation |-> calculate_vacation_accrual(employee, employee.country_code, now)],
            now, tbl)

----------------------------------------------------------------------------
(* Portfolio aggregation *)

RECURSIVE SumUsd(_, _)
SumUsd(res, i) == IF i > Len(res) THEN 0 ELSE res[i].total_usd + SumUsd(res, i + 1)

RECURSIVE SumRisk(_, _)
SumRisk(res, i) == IF i > Len(res) THEN 0 ELSE res[i].risk_score + SumRisk(res, i + 1)

\* position of `code` in the rollup list, 0 if absent ("code not in by_country")
RECURSIVE FindCode(_, _, _)
FindCode(by_country, code, i) ==
    IF i > Len(by_country) THEN 0
    ELSE IF by_country[i].code = code THEN i
    ELSE FindCode(by_country, code, i + 1)

\* AddToCountry with the rollup's total assigned, not accumulated
AddToCountry_Overwrite(by_country, r) ==
    LET at == FindCode(by_country, r.country_code, 1)
        base == IF at = 0
                THEN Append(by_country,
                            [code |-> r.country_code, country_name |-> r.country_name,
                             employee_count |-> 0, total_usd |-> 0, employees |-> << >>])
                ELSE by_country
        k == IF at = 0 THEN Len(base) ELSE at
    IN  [base EXCEPT ![k].employee_count = @ + 1,
                     ![k].total_usd = r.total_usd,
                     ![k].employees = Append(@, r.employee_id)]

\* one pass of the aggregation loop: result r added to its country's rollup,
\* a new rollup being appended (dict insertion order) at its first employee
AddToCountry(by_country, r) ==
    LET at == FindCode(by_country, r.country_code, 1)
        base == IF at = 0
                THEN Append(by_country,
                            [code |-> r.country_code, country_name |-> r.country_name,
                             employee_count |-> 0, total_usd |-> 0, employees |-> << >>])
                ELSE by_country
        k == IF at = 0 THEN Len(base) ELSE at
    IN  [base EXCEPT ![k].employee_count = @ + 1,
                     ![k].total_usd = @ + r.total_usd,
                     ![k].employees = Append(@, r.employee_id)]

RECURSIVE ByCountry(_, _, _)
ByCountry(res, i, acc) ==
    IF i > Len(res) THEN acc
    ELSE ByCountry(res, i + 1, AddToCountry(acc, res[i]))

\* Percent with the quotient truncated to a whole number before the scaling
Percent_IntegerDivision(total_usd, total_liability) ==
    IF total_liability > 0 THEN (total_usd \div total_liability) * 10000 ELSE 0

\* data["percent"] in 1/100 of a percent
Percent(total_usd, total_liability) ==
    IF total_liability > 0 THEN MulDiv(total_usd, 10000, total_liability) ELSE 0

\* PercentOver30 on the share as a fraction of 1, not as a percentage
PercentOver30_Fraction(total_usd, total_liability) ==
    /\ total_liability > 0
    /\ total_usd > 0
    /\ LET m == MulDivNat(total_usd, 1, total_liability)
       IN  m.q > 30 \/ (m.q = 30 /\ m.r > 0)

\* data["percent"] > 30, decided on the exact quotient
PercentOver30(total_usd, total_liability) ==
    /\ total_liability > 0
    /\ total_usd > 0
    /\ LET m == MulDivNat(total_usd, 10000, total_liability)
       IN  m.q > 3000 \/ (m.q = 3000 /\ m.r > 0)

WithPercent(by_country, total_liability) ==
    [i \in 1..Len(by_country) |->
        [code |-> by_country[i].code,
         country_name |-> by_country[i].country_name,
         employee_count |-> by_country[i].employee_count,
         total_usd |-> by_country[i].total_usd,
         employees |-> by_country[i].employees,
         percent |-> Percent(by_country[i].total_usd, total_liability)]]

RECURSIVE ConcentrationAlerts(_, _, _)
ConcentrationAlerts(by_country, total_liability, i) ==
    IF i > Len(by_country) THEN << >>
    ELSE (IF PercentOver30(by_country[i].total_usd, total_liability)
          THEN << [kind |-> "CONCENTRATION", subject |-> by_country[i].country_name] >>
          ELSE << >>)
         \o ConcentrationAlerts(by_country, total_liability, i + 1)

\* EmployeeAlerts with the exposure threshold applied to the local-currency
\* total
RECURSIVE EmployeeAlerts_LocalTotal(_, _, _)
EmployeeAlerts_LocalTotal(res, tbl, i) ==
    IF i > Len(res) THEN << >>
    ELSE (IF res[i].total_local > 100000 * 100
          THEN << [kind |-> "HIGH EXPOSURE", subject |-> res[i].name] >>
          ELSE << >>)
         \o (IF Get(tbl.vol, res[i].currency, 0) > 15
             THEN << [kind |-> "FX RISK", subject |-> res[i].name] >>
             ELSE << >>)
         \o EmployeeAlerts_LocalTotal(res, tbl, i + 1)

RECURSIVE EmployeeAlerts(_, _, _)
EmployeeAlerts(res, tbl, i) ==
    IF i > Len(res) THEN << >>
    ELSE (IF res[i].total_usd > 100000 * 100
          THEN << [kind |-> "HIGH EXPOSURE", subject |-> res[i].name] >>
          ELSE << >>)
         \o (IF Get(tbl.vol, res[i].currency, 0) > 15
             THEN << [kind |-> "FX RISK", subject |-> res[i].name] >>
             ELSE << >>)
         \o EmployeeAlerts(res, tbl, i + 1)

HighRiskCount(res) == Cardinality({i \in 1..Len(res) : res[i].risk_score > 7000})

\* the dict calculate_portfolio returns, from the list of employee results
PortfolioResult(res, tbl) ==
    LET total_liability == SumUsd(res, 1)
        by_country == WithPercent(ByCountry(res, 1, << >>), total_liability)
    IN  [employees |-> res,
         by_country |-> by_country,
         total_liability_usd |-> total_liability,
         total_employees |-> Len(res),
         high_risk_count |-> HighRiskCount(res),
         avg_risk_score |-> IF Len(res) > 0 THEN SumRisk(res, 1) \div Len(res) ELSE 0,
         alerts |-> ConcentrationAlerts(by_country, total_liability, 1)
                    \o EmployeeAlerts(res, tbl, 1)]
----------------------------------------------------------------------------
(* Inputs *)

\* 2026-01-01, the day the hire dates below are placed around
NewYear == YearStart(LastDay)

\* the dates the clock may show when the engine is first called
FirstDays == {NewYear - 1, NewYear}

\* a start_date string: one strptime parses (to day number `day`) or one it
\* rejects with ValueError
ParsedDate(d) == [valid |-> TRUE, day |-> d]

BadDate == [valid |-> FALSE, day |-> 0]

\* hire dates: in the near and the far future, and on either side of each tenure threshold of
\* the rule sets (6, 8 months; 1, 2, 5, 10, 12, 20 years) as the clock moves
HireDates ==
    {ParsedDate(NewYear - t) :
        t \in {-20000, -4000, -200, 0, 100, 180, 240, 366, 731, 1827, 3653, 4400, 7305}}

Salaries == {0, 5000, 320000}

CountryCodes == DOMAIN COUNTRY_RULES \cup {"XX"}

\* the employee records a one-employee call is made with, paid in a currency
\* of high or low volatility or in one the FX tables do not list; age and
\* department, which the engine never reads, are left out
EmployeeRecords ==
    { [employee_id |-> "EMP001", name |-> "Maria Santos", country_code |-> c,
       start_date |-> h, monthly_salary_local |-> s, currency |-> cur,
       job_level |-> j] :
        c \in CountryCodes, h \in HireDates \cup {BadDate}, s \in Salaries,
        cur \in {"BRL", "EUR", "ZZZ"}, j \in {"mid", "lead"} }

\* the records longer portfolios are drawn from
PoolRecord(id, name, c, h, s, cur) ==
    [employee_id |-> id, name |-> name, country_code |-> c, start_date |-> h,
     monthly_salary_local |-> s, currency |-> cur, job_level |-> "senior"]

Pool ==
    { PoolRecord("EMP021", "Fernanda Costa", "BR", ParsedDate(NewYear - 3653), 320000, "BRL"),
      PoolRecord("EMP012", "Marie Lefevre", "FR", ParsedDate(NewYear - 100), 5000, "EUR"),
      PoolRecord("EMP013", "Thomas Schmidt", "DE", ParsedDate(NewYear - 1827), 5000, "EUR"),
      PoolRecord("EMP004", "Priya Sharma", "IN", BadDate, 5000, "INR"),
      PoolRecord("EMP099", "Kim Lee", "XX", ParsedDate(NewYear - 731), 5000, "ZZZ"),
      PoolRecord("EMP011", "Lucas Oliveira", "BR", ParsedDate(NewYear + 4000), 5000, "BRL") }

RECURSIVE SeqsUpTo(_, _)
SeqsUpTo(S, n) ==
    IF n = 0 THEN {<< >>}
    ELSE LET shorter == SeqsUpTo(S, n - 1)
         IN  shorter \cup {Append(q, x) : q \in {p \in shorter : Len(p) = n - 1}, x \in S}

\* the employee lists calculate_portfolio is called with
Portfolios == {<<e>> : e \in EmployeeRecords} \cup SeqsUpTo(Pool, MaxPortfolio)

----------------------------------------------------------------------------
(* State machine *)

NoLocals == [notice_days |-> 0, notice_cost |-> 0, severance |-> 0, bonuses |-> 0,
             vacation |-> 0, reads |-> << >>]

NoPortfolio == PortfolioResult(<< >>, [rules |-> << >>, rates |-> << >>, vol |-> << >>])

Init ==
    /\ today \in FirstDays
    /\ tables = [rules |-> COUNTRY_RULES, rates |-> FX_RATES, vol |-> FX_VOLATILITY]
    /\ pc = "idle"
    /\ employees = << >>
    /\ idx = 0
    /\ loc = NoLocals
    /\ results = << >>
    /\ out = NoPortfolio
    /\ raised = ""
    /\ readlog = << >>

\* midnight: the clock moves to the next day, at any point of a call
Tick ==
    /\ today < LastDay
    /\ today' = today + 1
    /\ UNCHANGED <<tables, pc, employees, idx, loc, results, out, raised, readlog>>

\* calculate_portfolio(emps) is entered; the list comprehension starts
Call ==
    /\ pc = "idle"
    /\ \E emps \in Portfolios :
        /\ employees' = emps
        /\ idx' = IF emps = << >> THEN 0 ELSE 1
        /\ pc' = IF emps = << >> THEN "aggregate" ELSE "notice"
    /\ loc' = NoLocals
    /\ results' = << >>
    /\ out' = NoPortfolio
    /\ raised' = ""
    /\ readlog' = << >>
    /\ UNCHANGED <<today, tables>>

\* calculate_notice_period: its calculate_tenure parses the hire date, and
\* strptime raises ValueError on a malformed one; nothing catches it, so it
\* leaves calculate_employee_liability and calculate_portfolio
StepNotice ==
    /\ pc = "notice"
    /\ LET employee == employees[idx]
       IN  IF ~employee.start_date.valid
           THEN /\ pc' = "raised"
                /\ raised' = "ValueError"
                /\ UNCHANGED loc
           ELSE LET notice == calculate_notice_period(employee,
                                  CountryOf(employee, tables), today)
                IN  /\ loc' = [loc EXCEPT !.notice_days = notice.days,
                                          !.notice_cost = notice.cost,
                                          !.reads = Append(@, today)]
                    /\ pc' = "severance"
                    /\ UNCHANGED raised
    /\ UNCHANGED <<today, tables, employees, idx, results, out, readlog>>

StepSeverance ==
    /\ pc = "severance"
    /\ LET employee == employees[idx]
       IN  loc' = [loc EXCEPT !.severance = calculate_severance(employee,
                                                CountryOf(employee, tables), today),
                              !.reads = Append(@, today)]
    /\ pc' = "bonuses"
    /\ UNCHANGED <<today, tables, employees, idx, results, out, raised, readlog>>

StepBonuses ==
    /\ pc = "bonuses"
    /\ LET employee == employees[idx]
       IN  loc' = [loc EXCEPT !.bonuses = calculate_statutory_bonuses(employee,
                                              CountryOf(employee, tables), today),
                              !.reads = Append(@, today)]
    /\ pc' = "vacation"
    /\ UNCHANGED <<today, tables, employees, idx, results, out, raised, readlog>>

StepVacation ==
    /\ pc = "vacation"
    /\ LET employee == employees[idx]
       IN  loc' = [loc EXCEPT !.vacation = calculate_vacation_accrual(employee,
                                               employee.country_code, today),
                              !.reads = Append(@, today)]
    /\ pc' = "result"
    /\ UNCHANGED <<today, tables, employees, idx, results, out, raised, readlog>>

\* StepResult with a cache of results keyed by employee_id: a second
\* evaluation of an employee returns the dict of the first
StepResult_Cached ==
    /\ pc = "result"
    /\ LET fresh == LiabilityResult(employees[idx], loc, today, tables)
           hits == {i \in 1..Len(results) :
                       results[i].employee_id = employees[idx].employee_id}
       IN  results' = Append(results,
                             IF hits = {} THEN fresh
                             ELSE results[CHOOSE i \in hits : TRUE])
    /\ readlog' = Append(readlog, Append(loc.reads, today))
    /\ loc' = NoLocals
    /\ idx' = idx + 1
    /\ pc' = IF idx = Len(employees) THEN "aggregate" ELSE "notice"
    /\ UNCHANGED <<today, tables, employees, out, raised>>

\* StepResult with the conversion to USD done in place: the employee record
\* is left with currency "USD"
StepResult_ConvertsInPlace ==
    /\ pc = "result"
    /\ results' = Append(results, LiabilityResult(employees[idx], loc, today, tables))
    /\ readlog' = Append(readlog, Append(loc.reads, today))
    /\ employees' = [employees EXCEPT ![idx].currency = "USD"]
    /\ loc' = NoLocals
    /\ idx' = idx + 1
    /\ pc' = IF idx = Len(employees) THEN "aggregate" ELSE "notice"
    /\ UNCHANGED <<today, tables, out, raised>>

\* the totals, the risk score and the returned dict (whose tenure_years is one
\* more calculate_tenure); the comprehension appends it and moves on
StepResult ==
    /\ pc = "result"
    /\ results' = Append(results, LiabilityResult(employees[idx], loc, today, tables))
    /\ readlog' = Append(readlog, Append(loc.reads, today))
    /\ loc' = NoLocals
    /\ idx' = idx + 1
    /\ pc' = IF idx = Len(employees) THEN "aggregate" ELSE "notice"
    /\ UNCHANGED <<today, tables, employees, out, raised>>

\* the rest of calculate_portfolio: totals, rollups, percentages, alerts
Aggregate ==
    /\ pc = "aggregate"
    /\ out' = PortfolioResult(results, tables)
    /\ pc' = "returned"
    /\ UNCHANGED <<today, tables, employees, idx, loc, results, raised, readlog>>

\* the caller takes the returned dict, or the exception, and may call again
Return ==
    /\ pc \in {"returned", "raised"}
    /\ pc' = "idle"
    /\ employees' = << >>
    /\ idx' = 0
    /\ loc' = NoLocals
    /\ results' = << >>
    /\ out' = NoPortfolio
    /\ raised' = ""
    /\ readlog' = << >>
    /\ UNCHANGED <<today, tables>>

Next ==
    \/ Tick
    \/ Call
    \/ StepNotice
    \/ StepSeverance
    \/ StepBonuses
    \/ StepVacation
    \/ StepResult
    \/ Aggregate
    \/ Return

Spec == Init /\ [][Next]_vars
----------------------------------------------------------------------------
(* Properties of the employee results *)

\* the employee whose evaluation is running
Current == employees[idx]

\* tenure in days of a hire date at a date the clock showed
TenureDays(employee, date) == date - employee.start_date.day

\* C1: every returned result has notice_days >= 0, notice_cost >= 0,
\* severance >= 0, bonuses >= 0 and vacation >= 0.
C1_ComponentsNonNegative ==
    \A i \in 1..Len(results) :
        /\ results[i].notice_days >= 0
        /\ results[i].notice_cost >= 0
        /\ results[i].severance >= 0
        /\ results[i].bonuses >= 0
        /\ results[i].vacation >= 0

\* C2: every returned result has its risk score in [0, 100].
C2_RiskScoreInRange ==
    \A i \in 1..Len(results) :
        results[i].risk_score >= 0 /\ results[i].risk_score <= 100 * 100

\* C3: once calculate_severance has returned, the severance is exactly 0 if
\* the rule set declares min_tenure_months and the whole months of tenure are
\* below it, or declares min_tenure_years and the years of tenure are below it.
C3_ZeroBelowMinTenure ==
    pc = "bonuses" =>
        LET sev_config == Get(CountryOf(Current, tables), "severance", << >>)
            days == TenureDays(Current, loc.reads[2])
        IN  (\/ /\ "min_tenure_months" \in DOMAIN sev_config
                /\ days \div 30 < sev_config.min_tenure_months
             \/ /\ "min_tenure_years" \in DOMAIN sev_config
                /\ 4 * days < sev_config.min_tenure_years * YearsDen)
            => loc.severance = 0

\* an employee hired, with a salary, less than the declared minimum tenure ago
C3_Witness ==
    /\ pc = "bonuses"
    /\ Current.monthly_salary_local > 0
    /\ TenureDays(Current, loc.reads[2]) > 0
    /\ LET sev_config == Get(CountryOf(Current, tables), "severance", << >>)
       IN  /\ "min_tenure_years" \in DOMAIN sev_config
           /\ 4 * TenureDays(Current, loc.reads[2]) < sev_config.min_tenure_years * YearsDen
    /\ loc.severance = 0

\* the jurisdictions whose notice policy is a list of tiers
TieredCountries ==
    {c \in DOMAIN tables.rules : "tiers" \in DOMAIN tables.rules[c].notice_period}

\* tenures in days compared with the employee's: negative ones, the last day
\* before and the first day of every whole year of tenure up to 22 (where a
\* years tier or the per-year weeks can step), and the same around the month
\* thresholds 6 and 24
ComparedTenures ==
    {-400, -1}
    \cup {(YearsDen * n + 3) \div 4 - 1 : n \in 0..22}
    \cup {(YearsDen * n + 3) \div 4 : n \in 0..22}
    \cup {179, 180, 719, 720}

ComparedHireDays(date) ==
    {h.day : h \in HireDates} \cup {date - t : t \in ComparedTenures}

\* C4: in a tiered jurisdiction, the notice days computed for the employee are
\* at least those computed, on the same date under the same rule set, salary
\* and job level, for any hire date that is later (any shorter tenure).
C4_TieredNoticeMonotonic ==
    (pc = "severance" /\ Current.country_code \in TieredCountries) =>
        \A h \in ComparedHireDays(loc.reads[1]) :
            h >= Current.start_date.day =>
                calculate_notice_period([Current EXCEPT !.start_date = ParsedDate(h)],
                                        CountryOf(Current, tables), loc.reads[1]).days
                    <= loc.notice_days

\* a tiered jurisdiction where a shorter tenure does get fewer days
C4_Witness ==
    /\ pc = "severance"
    /\ Current.country_code \in TieredCountries
    /\ \E h \in ComparedHireDays(loc.reads[1]) :
        /\ h > Current.start_date.day
        /\ h <= loc.reads[1]
        /\ LET shorter == calculate_notice_period(
                              [Current EXCEPT !.start_date = ParsedDate(h)],
                              CountryOf(Current, tables), loc.reads[1]).days
           IN  shorter > 0 /\ shorter < loc.notice_days

----------------------------------------------------------------------------
(* Properties of the portfolio result *)

RECURSIVE SumPercent(_, _)
SumPercent(by_country, i) ==
    IF i > Len(by_country) THEN 0
    ELSE by_country[i].percent + SumPercent(by_country, i + 1)

HasConcentrationAlert(alerts, country_name) ==
    \E k \in 1..Len(alerts) :
        alerts[k].kind = "CONCENTRATION" /\ alerts[k].subject = country_name

\* C5: in a returned portfolio the percents (in 1/100 of a percent, each
\* rounded down) sum to 100 within one unit per country when the grand total
\* is above 0, and every percent is 0 when the grand total is 0.
C5_PercentsSumTo100 ==
    pc = "returned" =>
        /\ out.total_liability_usd > 0 =>
            /\ SumPercent(out.by_country, 1) <= 100 * 100
            /\ SumPercent(out.by_country, 1) > 100 * 100 - Len(out.by_country)
        /\ out.total_liability_usd = 0 =>
            \A i \in 1..Len(out.by_country) : out.by_country[i].percent = 0

\* a portfolio over two countries, both with a share of a positive total
C5_Witness ==
    /\ pc = "returned"
    /\ out.total_liability_usd > 0
    /\ Len(out.by_country) = 2
    /\ out.by_country[1].percent > 0
    /\ out.by_country[2].percent > 0

\* C6 as stated: a portfolio of one employee yields that employee's country
\* with percent = 100 and a concentration alert for it.
C6_SingleEmployeeAlways100 ==
    (pc = "returned" /\ Len(employees) = 1) =>
        /\ Len(out.by_country) = 1
        /\ out.by_country[1].code = employees[1].country_code
        /\ out.by_country[1].percent = 100 * 100
        /\ HasConcentrationAlert(out.alerts, out.by_country[1].country_name)

\* C6 amended: a portfolio of one employee yields one rollup, that of the
\* employee's country; with a total above 0 its percent is 100 and the
\* concentration alert is raised, otherwise its percent is 0 and no
\* concentration alert is raised.
C6_SingleEmployee100IfPositive ==
    (pc = "returned" /\ Len(employees) = 1) =>
        /\ Len(out.by_country) = 1
        /\ out.by_country[1].code = employees[1].country_code
        /\ out.by_country[1].employees = << employees[1].employee_id >>
        /\ IF out.total_liability_usd > 0
           THEN /\ out.by_country[1].percent = 100 * 100
                /\ HasConcentrationAlert(out.alerts, out.by_country[1].country_name)
           ELSE /\ out.by_country[1].percent = 0
                /\ ~HasConcentrationAlert(out.alerts, out.by_country[1].country_name)

C6_Witness ==
    /\ pc = "returned"
    /\ Len(employees) = 1
    /\ out.total_liability_usd > 0
    /\ out.by_country[1].percent = 100 * 100
    /\ HasConcentrationAlert(out.alerts, out.by_country[1].country_name)

----------------------------------------------------------------------------
(* Error handling *)

\* C7: a tenure calculation never returns for a hire date after the date it
\* read: every clock read of the running evaluation, and of every evaluation
\* that produced a result, is on or after the employee's hire date, and no
\* result reports negative tenure.
C7_HireDateAfterReferenceRejected ==
    /\ \A k \in 1..Len(loc.reads) : Current.start_date.day <= loc.reads[k]
    /\ \A i \in 1..Len(results) :
        /\ results[i].tenure_years >= 0
        /\ \A k \in 1..Len(readlog[i]) : employees[i].start_date.day <= readlog[i][k]

\* C8: no result is produced for an employee whose country code has no rule
\* set.
C8_UnknownCountryRejected ==
    \A i \in 1..Len(results) : results[i].country_code \in DOMAIN tables.rules

\* C9: a call whose list holds a malformed record next to well-formed ones
\* ends by returning, with a result for every well-formed record.
C9_FailureIsolated ==
    (/\ pc \in {"returned", "raised"}
     /\ \E i \in 1..Len(employees) : ~employees[i].start_date.valid
     /\ \E i \in 1..Len(employees) : employees[i].start_date.valid) =>
        /\ pc = "returned"
        /\ \A i \in 1..Len(employees) :
            employees[i].start_date.valid =>
                \E j \in 1..Len(out.employees) :
                    out.employees[j].employee_id = employees[i].employee_id

----------------------------------------------------------------------------
(* Determinism *)

\* the clock showed one and the same date at all five reads of result i
ReadOn(i, date) ==
    Len(readlog[i]) = 5 /\ \A k \in 1..5 : readlog[i][k] = date

\* C10: when an evaluation has returned, a result whose evaluation read one
\* date throughout is the value of
\* calculate_employee_liability for that record, rule set and date, wherever in
\* the list the employee stands and whatever was evaluated before; so any two
\* results of equal records read on the same date are identical.
C10_Deterministic ==
    pc \in {"notice", "aggregate"} =>
        /\ \A i \in 1..Len(results) :
            ReadOn(i, readlog[i][1]) =>
                results[i] = calculate_employee_liability(employees[i],
                                                          readlog[i][1], tables)
        /\ \A i, j \in 1..Len(results) :
            (/\ employees[i] = employees[j]
             /\ readlog[i][1] = readlog[j][1]
             /\ ReadOn(i, readlog[i][1])
             /\ ReadOn(j, readlog[j][1]))
            => results[i] = results[j]

\* the same record evaluated twice in one call, both times on one date, the
\* second evaluation following the first
C10_Witness ==
    /\ pc \in {"notice", "aggregate"}
    /\ Len(results) >= 2
    /\ employees[1] = employees[2]
    /\ ReadOn(1, today)
    /\ ReadOn(2, today)
    /\ results[1] = results[2]
    /\ results[1].total_usd # 0
----------------------------------------------------------------------------
(* Alerts *)

\* how many alerts of a kind name a subject
AlertCount(alerts, kind, subject) ==
    Cardinality({k \in 1..Len(alerts) :
                    alerts[k].kind = kind /\ alerts[k].subject = subject})

\* total_usd / total_liability > 30 / 100 for a positive total_liability,
\* decided in whole numbers: 10 * total_usd > 3 * total_liability
ShareAbove30(total_usd, total_liability) ==
    /\ total_liability > 0
    /\ total_usd > 3 * (total_liability \div 10) + (3 * (total_liability % 10)) \div 10

\* C11: the returned alert list holds only concentration, high-exposure and
\* FX-risk alerts; one concentration alert for each country whose share of a
\* positive total is above 30% and none for any other country; per employee
\* name, as many high-exposure alerts as results of that name with total_usd
\* above 100000, and as many FX-risk alerts as results of that name whose
\* currency has volatility above 0.15.
C11_AlertsExactlyOverThresholds ==
    pc = "returned" =>
        LET alerts == out.alerts
            rollups == out.by_country
            over(name, P(_)) ==
                Cardinality({j \in 1..Len(results) : results[j].name = name /\ P(j)})
            exposed(j) == results[j].total_usd > 100000 * 100
            volatile(j) == /\ results[j].currency \in DOMAIN tables.vol
                           /\ tables.vol[results[j].currency] > 15
        IN  /\ \A k \in 1..Len(alerts) :
                \/ /\ alerts[k].kind = "CONCENTRATION"
                   /\ \E i \in 1..Len(rollups) :
                        rollups[i].country_name = alerts[k].subject
                \/ /\ alerts[k].kind \in {"HIGH EXPOSURE", "FX RISK"}
                   /\ \E j \in 1..Len(results) : results[j].name = alerts[k].subject
            /\ \A i \in 1..Len(rollups) :
                AlertCount(alerts, "CONCENTRATION", rollups[i].country_name)
                    = IF ShareAbove30(rollups[i].total_usd, out.total_liability_usd)
                      THEN 1 ELSE 0
            /\ \A j \in 1..Len(results) :
                /\ AlertCount(alerts, "HIGH EXPOSURE", results[j].name)
                       = over(results[j].name, exposed)
                /\ AlertCount(alerts, "FX RISK", results[j].name)
                       = over(results[j].name, volatile)

\* a portfolio with all three kinds of alert for one country and employee, and
\* a second country and employee with none
C11_Witness ==
    /\ pc = "returned"
    /\ Len(out.by_country) = 2
    /\ Len(results) = 2
    /\ AlertCount(out.alerts, "CONCENTRATION", out.by_country[1].country_name) = 1
    /\ AlertCount(out.alerts, "CONCENTRATION", out.by_country[2].country_name) = 0
    /\ out.by_country[2].total_usd > 0
    /\ AlertCount(out.alerts, "HIGH EXPOSURE", results[1].name) = 1
    /\ AlertCount(out.alerts, "FX RISK", results[1].name) = 1
    /\ Len(out.alerts) = 3
----------------------------------------------------------------------------
(* Flat notice with accrual *)

\* C12: once calculate_notice_period has returned for a rule set with the
\* flat-with-accrual policy, the notice days are
\* min(base_days + floor(tenure_years) * additional_days_per_year, max_days):
\* the increment counts completed years of tenure only.
C12_FlatNoticePerCompletedYear ==
    pc = "severance" =>
        LET notice_config == Get(CountryOf(Current, tables), "notice_period", << >>)
            completed_years == (4 * TenureDays(Current, loc.reads[1])) \div YearsDen
        IN  "base_days" \in DOMAIN notice_config =>
                loc.notice_days
                    = Min(notice_config.base_days
                            + completed_years * notice_config.additional_days_per_year,
                          notice_config.max_days)
----------------------------------------------------------------------------
(* nse_scale severance *)

\* C13: once calculate_severance has returned for a rule set with the
\* nse_scale policy, the severance is 0 when the tenure is below one year, and
\* otherwise it is the scale entry at index
\* min(floor(tenure_years) - 1, length(scale) - 1), an index within the scale,
\* times monthly_salary / 4.33.
C13_NseScaleIndexClamped ==
    pc = "bonuses" =>
        LET sev_config == Get(CountryOf(Current, tables), "severance", << >>)
            days == TenureDays(Current, loc.reads[2])
            completed_years == (4 * days) \div YearsDen
        IN  ("formula" \in DOMAIN sev_config /\ sev_config.formula = "nse_scale") =>
                IF 4 * days < YearsDen THEN loc.severance = 0
                ELSE LET last == Len(sev_config.scale) - 1
                         index == IF completed_years - 1 < last
                                  THEN completed_years - 1 ELSE last
                     IN  /\ index \in 0..last
                         /\ loc.severance
                              = MulDiv(Current.monthly_salary_local * 100,
                                       sev_config.scale[index + 1] * 100, 433)

\* an employee under nse_scale with more whole years of tenure than the scale
\* has entries, paid the last entry of the scale
C13_Witness ==
    /\ pc = "bonuses"
    /\ Current.monthly_salary_local > 0
    /\ LET sev_config == Get(CountryOf(Current, tables), "severance", << >>)
       IN  /\ "formula" \in DOMAIN sev_config
           /\ sev_config.formula = "nse_scale"
           /\ (4 * TenureDays(Current, loc.reads[2])) \div YearsDen > Len(sev_config.scale)
           /\ loc.severance
                = MulDiv(Current.monthly_salary_local * 100,
                         sev_config.scale[Len(sev_config.scale)] * 100, 433)
----------------------------------------------------------------------------
(* Statutory bonuses *)

\* C14: once calculate_statutory_bonuses has returned for an employee whose
\* country configures no statutory bonus (the rule set has none, or an empty
\* set of them), the bonus component is 0, whatever the salary, the hire date
\* and the date the clock shows.
C14_NoBonusesConfiguredGivesZero ==
    pc = "vacation" =>
        (DOMAIN Get(CountryOf(Current, tables), "statutory_bonuses", << >>) = {}
            => loc.bonuses = 0)

\* a salaried employee of a known country without statutory bonuses, evaluated
\* late in the year
C14_Witness ==
    /\ pc = "vacation"
    /\ Current.country_code \in DOMAIN tables.rules
    /\ DOMAIN Get(CountryOf(Current, tables), "statutory_bonuses", << >>) = {}
    /\ Current.monthly_salary_local > 0
    /\ TenureDays(Current, loc.reads[3]) > 0
    /\ DaysInYearSoFar(loc.reads[3]) > 300
    /\ loc.bonuses = 0
----------------------------------------------------------------------------
(* Frame *)

\* a calculate_portfolio call is under way, its result not yet handed back
InCall == pc \in {"notice", "severance", "bonuses", "vacation", "result", "aggregate"}

\* C15: no step changes the country rule sets, the FX rates or the FX
\* volatilities; no step of a call changes the employee records the call was
\* given, and a result, once an evaluation has returned it, is left as it is
\* by every later evaluation and by the aggregation.
C15_InputsAndTablesNeverModified ==
    [][/\ tables' = tables
       /\ InCall =>
            /\ employees' = employees
            /\ Len(results') >= Len(results)
            /\ \A i \in 1..Len(results) : results'[i] = results[i]]_vars

\* two employees, the second a repetition of the first, have been evaluated
\* and aggregated; the tables are as constructed and the records as supplied
C15_Witness ==
    /\ pc = "returned"
    /\ out.total_employees = 2
    /\ Len(out.alerts) > 0
    /\ employees \in Portfolios
    /\ employees[1] = employees[2]
    /\ tables = [rules |-> COUNTRY_RULES, rates |-> FX_RATES, vol |-> FX_VOLATILITY]
----------------------------------------------------------------------------
(* Tiered notice: which tier wins *)

\* the threshold a tier declares, in months or in years
TierThreshold(tier) ==
    IF "min_months" \in DOMAIN tier THEN tier.min_months ELSE tier.min_years

\* a tier declares a threshold and a tenure of `days` days meets it
TierSatisfied(tier, days) ==
    IF "min_months" \in DOMAIN tier THEN days \div 30 >= tier.min_months
    ELSE "min_years" \in DOMAIN tier /\ 4 * days >= tier.min_years * YearsDen

\* the notice days a tier grants: its days, its weeks, its weeks per completed
\* year up to max_weeks, or its months
TierDays(tier, days) ==
    IF "min_months" \in DOMAIN tier THEN tier.days
    ELSE IF "weeks" \in DOMAIN tier THEN tier.weeks * 7
    ELSE IF "weeks_per_year" \in DOMAIN tier
         THEN LET by_years == ((4 * days) \div YearsDen) * tier.weeks_per_year
              IN  (IF by_years < tier.max_weeks THEN by_years ELSE tier.max_weeks) * 7
    ELSE tier.months * 30

C16_WitnessBelowAll ==
    /\ pc = "severance"
    /\ Current.country_code \in TieredCountries
    /\ LET tiers == CountryOf(Current, tables).notice_period.tiers
           days == TenureDays(Current, loc.reads[1])
       IN  /\ days > 0
           /\ \A i \in 1..Len(tiers) :
                /\ DOMAIN tiers[i] \cap {"min_months", "min_years"} # {}
                /\ ~TierSatisfied(tiers[i], days)
    /\ loc.notice_days = 0
----------------------------------------------------------------------------
(* One reference date per evaluation *)

\* C17: every returned result is the one calculate_employee_liability gives
\* for its employee at one single date, a date the clock showed during that
\* evaluation: notice, severance, bonuses, vacation and tenure_years all stem
\* from that date, also when midnight passed between the steps.
C17_OneReferenceDatePerEvaluation ==
    pc \in {"notice", "aggregate"} =>
        \A i \in 1..Len(results) :
            \E k \in 1..Len(readlog[i]) :
                results[i] = calculate_employee_liability(employees[i],
                                                          readlog[i][k], tables)
----------------------------------------------------------------------------
(* The rollups partition the employees *)

RECURSIVE SumCount(_, _)
SumCount(by_country, i) ==
    IF i > Len(by_country) THEN 0
    ELSE by_country[i].employee_count + SumCount(by_country, i + 1)

RECURSIVE SumRollupUsd(_, _)
SumRollupUsd(by_country, i) ==
    IF i > Len(by_country) THEN 0
    ELSE by_country[i].total_usd + SumRollupUsd(by_country, i + 1)

\* C18: in every returned portfolio result the rollups have distinct country
\* codes; the identifier of each input employee is in the member list of the
\* rollup of its country code and of no other rollup; each rollup's
\* employee_count is the length of its member list and the number of input
\* employees of that country; the employee_count values sum to
\* total_employees, the number of input employees; the rollups' total_usd
\* values sum to total_liability_usd.
C18_RollupsPartitionEmployees ==
    pc = "returned" =>
        LET rollups == out.by_country
            holders(id) == {i \in 1..Len(rollups) :
                               \E k \in 1..Len(rollups[i].employees) :
                                   rollups[i].employees[k] = id}
        IN  /\ \A a, b \in 1..Len(rollups) : a # b => rollups[a].code # rollups[b].code
            /\ \A j \in 1..Len(employees) :
                /\ holders(employees[j].employee_id)
                     = {i \in 1..Len(rollups) : rollups[i].code = employees[j].country_code}
                /\ Cardinality(holders(employees[j].employee_id)) = 1
            /\ \A i \in 1..Len(rollups) :
                /\ rollups[i].employee_count = Len(rollups[i].employees)
                /\ rollups[i].employee_count
                     = Cardinality({j \in 1..Len(employees) :
                                       employees[j].country_code = rollups[i].code})
            /\ out.total_employees = Len(employees)
            /\ SumCount(rollups, 1) = out.total_employees
            /\ SumRollupUsd(rollups, 1) = out.total_liability_usd

\* two employees of two countries, each with a liability, in two rollups
C18_Witness ==
    /\ pc = "returned"
    /\ Len(employees) = 2
    /\ Len(out.by_country) = 2
    /\ out.by_country[1].total_usd > 0
    /\ out.by_country[2].total_usd > 0
    /\ out.by_country[1].employees = << employees[1].employee_id >>
    /\ out.by_country[2].employees = << employees[2].employee_id >>

====
